---- MODULE Spec2Model ----
(***************************************************************************)
(* EditImageAgent (src/src/agentscope/agents/edit_image_agent.py): the     *)
(* correlated request/reply client.  reply() publishes a task tagged with  *)
(* a fresh correlation id, spins on connection.process_data_events() until *)
(* on_response() has filled self.response, then either raises or fetches   *)
(* the artifact from object storage.                                       *)
(***************************************************************************)
EXTENDS Integers, Sequences, FiniteSets, TLC

\* ------------------------------------------------------------------ bounds
MaxRequests == 2        \* calls of reply() in one behaviour
MaxQueue == 2           \* replies waiting in the callback queue

\* ------------------------------------------------------------ value spaces
AllCallers == {1, 2}    \* threads that may call reply() on the agent

NoAttr == -1            \* corr_id: the attribute was never assigned
ForeignId == 0          \* a correlation id this agent never generated
NoTag == -2             \* the slot holds no reply

\* Reply bodies, as byte sequences.
FailedBytes == <<102, 97, 105, 108, 101, 100>>      \* b'failed'
OkBytes == <<111, 107>>                             \* b'ok'
BadUtf8Bytes == <<255>>                             \* b'\xff'
EmptyBytes == <<>>                                  \* b''
Bodies == {FailedBytes, OkBytes, BadUtf8Bytes, EmptyBytes}

\* The three shapes of self.response.
RespNoAttr == [kind |-> "NoAttr", body |-> <<>>]
RespNone == [kind |-> "None", body |-> <<>>]
RespBytes(b) == [kind |-> "bytes", body |-> b]

CallbackQueueName == "amq.gen-callback"
ImageDir == "local_images"
Bucket == "bucket"
NoPath == <<>>

\* ----------------------------------------------------------- pure helpers
\* uuid.uuid4(): a value no earlier call returned; n counts the earlier calls.
Uuid4Reused(n) == 1
Uuid4(n) == n + 1

\* bytes.decode(): strict UTF-8.  The result is [ok, text] with text the
\* sequence of code points; ok = FALSE stands for UnicodeDecodeError.
IsCont(b) == b >= 128 /\ b <= 191

RECURSIVE Utf8Decode(_)
Utf8Decode(b) ==
    IF b = <<>> THEN [ok |-> TRUE, text |-> <<>>]
    ELSE LET b1 == b[1]
             n == Len(b)
             need == IF b1 < 128 THEN 1
                     ELSE IF b1 >= 194 /\ b1 <= 223 THEN 2
                     ELSE IF b1 >= 224 /\ b1 <= 239 THEN 3
                     ELSE IF b1 >= 240 /\ b1 <= 244 THEN 4
                     ELSE 0
             wellFormed ==
                 /\ need > 0
                 /\ n >= need
                 /\ \A i \in 2..need : IsCont(b[i])
                 /\ (b1 = 224 => b[2] >= 160)
                 /\ (b1 = 237 => b[2] <= 159)
                 /\ (b1 = 240 => b[2] >= 144)
                 /\ (b1 = 244 => b[2] <= 143)
             cp == IF need = 1 THEN b1
                   ELSE IF need = 2 THEN (b1 - 192) * 64 + (b[2] - 128)
                   ELSE IF need = 3
                        THEN (b1 - 224) * 4096 + (b[2] - 128) * 64 + (b[3] - 128)
                   ELSE (b1 - 240) * 262144 + (b[2] - 128) * 4096
                        + (b[3] - 128) * 64 + (b[4] - 128)
         IN IF ~wellFormed THEN [ok |-> FALSE, text |-> <<>>]
            ELSE LET rest == Utf8Decode(SubSeq(b, need + 1, n))
                 IN IF rest.ok THEN [ok |-> TRUE, text |-> <<cp>> \o rest.text]
                    ELSE rest

FailedText == <<102, 97, 105, 108, 101, 100>>       \* 'failed'

\* self.response.decode() == 'failed'
IsFailedAlways(text) == FALSE
IsFailed(text) == text = FailedText

\* os.path.join(self.image_dir, self.corr_id)
LocalDir(c) == <<ImageDir, c>>
\* os.path.join(current_img_dir, '0.png')
LocalPath(dir) == dir \o <<"0.png">>
\* 'AIGCs/' + self.corr_id + '/0.png'
OssKey(c) == <<"AIGCs", c, "0.png">>

\* `while self.response is None`
LoopConditionTimeout(r) == FALSE
LoopCondition(r) == r.kind = "None"

\* `self.response = None`
ResetResponseKeep(r) == r
ResetResponse(r) == RespNone

\* on_response(ch, method, props, body): slot is [resp, tag], tag recording
\* the correlation id of the reply that filled resp.
OnResponseAny(cid, slot, m) == [resp |-> RespBytes(m.body), tag |-> m.correlation_id]
OnResponse(cid, slot, m) ==
    IF cid = m.correlation_id
    THEN [resp |-> RespBytes(m.body), tag |-> m.correlation_id]
    ELSE slot

\* The callbacks of one process_data_events() call, in queue order.
RECURSIVE Dispatch(_, _, _)
Dispatch(cid, slot, msgs) ==
    IF msgs = <<>> THEN slot
    ELSE Dispatch(cid, OnResponse(cid, slot, Head(msgs)), Tail(msgs))

\* The tag of the last reply of a batch that on_response discarded, else d.
RECURSIVE LastDropped(_, _, _)
LastDropped(cid, d, msgs) ==
    IF msgs = <<>> THEN d
    ELSE LastDropped(cid,
                     IF Head(msgs).correlation_id # cid
                     THEN Head(msgs).correlation_id ELSE d,
                     Tail(msgs))

\* ------------------------------------------------------- convert_to_json
\* The model's text is a sequence of tokens: punctuation marks one by one
\* (the full-width ones under FW_ names) and whole words.
Words == {"source_furniture", "desired_furniture", "sofa", "chair"}

\* punctuation_map, lines 158-179, applied by the loop of lines 182-183.
PunctuationMap(tok) ==
    CASE tok = "FW_COMMA" -> "COMMA"
      [] tok = "FW_PERIOD" -> "PERIOD"
      [] tok = "FW_EXCLAMATION" -> "EXCLAMATION"
      [] tok = "FW_QUESTION" -> "QUESTION"
      [] tok = "FW_COLON" -> "COLON"
      [] tok = "FW_SEMICOLON" -> "SEMICOLON"
      [] tok = "FW_LDQUOTE" -> "DQUOTE"
      [] tok = "FW_RDQUOTE" -> "DQUOTE"
      [] tok = "FW_LSQUOTE" -> "SQUOTE"
      [] tok = "FW_RSQUOTE" -> "SQUOTE"
      [] tok = "FW_LPAREN" -> "LPAREN"
      [] tok = "FW_RPAREN" -> "RPAREN"
      [] tok = "FW_LBRACKET" -> "LBRACKET"
      [] tok = "FW_RBRACKET" -> "RBRACKET"
      [] tok = "FW_LANGLE" -> "LESS"
      [] tok = "FW_RANGLE" -> "GREATER"
      [] tok = "FW_ENUM_COMMA" -> "COMMA"
      [] tok = "FW_DASH" -> "HYPHEN"
      [] tok = "FW_ELLIPSIS" -> "DOT_DOT_DOT"
      [] OTHER -> tok

ReplacePunctuation(text) == [i \in 1..Len(text) |-> PunctuationMap(text[i])]

\* The three results json.loads / convert_to_json have on the texts below.
JsonNone == [kind |-> "None", items |-> <<>>]
JsonStr(w) == [kind |-> "str", items |-> <<<<w, w>>>>]
JsonDict(items) == [kind |-> "dict", items |-> items]

\* A JSON string literal starts at token i: " word ".
IsStringAt(toks, i) ==
    /\ i + 2 <= Len(toks)
    /\ toks[i] = "DQUOTE"
    /\ toks[i + 1] \in Words
    /\ toks[i + 2] = "DQUOTE"

\* The members of an object from token i on: string : string, then a comma
\* and more members, or the closing brace as the last token.
RECURSIVE ParseMembers(_, _, _)
ParseMembers(toks, i, items) ==
    IF ~( /\ IsStringAt(toks, i)
          /\ i + 3 <= Len(toks) /\ toks[i + 3] = "COLON"
          /\ IsStringAt(toks, i + 4)
          /\ i + 7 <= Len(toks) )
    THEN JsonNone
    ELSE LET more == Append(items, <<toks[i + 1], toks[i + 5]>>)
         IN IF toks[i + 7] = "RBRACE" /\ i + 7 = Len(toks) THEN JsonDict(more)
            ELSE IF toks[i + 7] = "COMMA" THEN ParseMembers(toks, i + 8, more)
            ELSE JsonNone

\* json.loads, lines 186-190: JsonNone stands for JSONDecodeError caught and
\* None returned.
JsonLoads(toks) ==
    IF Len(toks) = 3 /\ IsStringAt(toks, 1) THEN JsonStr(toks[2])
    ELSE IF toks = <<"LBRACE", "RBRACE">> THEN JsonDict(<<>>)
    ELSE IF Len(toks) >= 1 /\ toks[1] = "LBRACE" THEN ParseMembers(toks, 2, <<>>)
    ELSE JsonNone

\* convert_to_json, lines 156-192.
ConvertToJson(input_string) == JsonLoads(ReplacePunctuation(input_string))

\* converted_json[key], lines 121-122: the error it raises, or "none".
SubscriptDefault(cj, key) == "none"
Subscript(cj, key) ==
    IF cj.kind # "dict" THEN "TypeError"
    ELSE IF \E i \in 1..Len(cj.items) : cj.items[i][1] = key THEN "none"
    ELSE "KeyError"

\* Texts the language model answers with.
TextAscii ==
    <<"LBRACE", "DQUOTE", "source_furniture", "DQUOTE", "COLON",
      "DQUOTE", "sofa", "DQUOTE", "COMMA",
      "DQUOTE", "desired_furniture", "DQUOTE", "COLON",
      "DQUOTE", "chair", "DQUOTE", "RBRACE">>
TextFullWidth ==
    <<"LBRACE", "FW_LDQUOTE", "source_furniture", "FW_RDQUOTE", "FW_COLON",
      "FW_LDQUOTE", "sofa", "FW_RDQUOTE", "FW_COMMA",
      "FW_LDQUOTE", "desired_furniture", "FW_RDQUOTE", "FW_COLON",
      "FW_LDQUOTE", "chair", "FW_RDQUOTE", "RBRACE">>
TextSingleQuotes ==
    <<"LBRACE", "FW_LSQUOTE", "source_furniture", "FW_RSQUOTE", "FW_COLON",
      "FW_LSQUOTE", "sofa", "FW_RSQUOTE", "RBRACE">>
TextProse == <<"sofa", "FW_PERIOD">>
TextTruncated ==
    <<"LBRACE", "DQUOTE", "source_furniture", "DQUOTE", "COLON",
      "DQUOTE", "sofa", "DQUOTE", "COMMA">>
TextOneKey ==
    <<"LBRACE", "DQUOTE", "source_furniture", "DQUOTE", "COLON",
      "DQUOTE", "sofa", "DQUOTE", "RBRACE">>
LlmTexts == {TextAscii, TextFullWidth, TextSingleQuotes, TextProse,
             TextTruncated, TextOneKey}

\* ------------------------------------------------------------------- state
VARIABLES
    callers,            \* the threads that call reply() in this behaviour
    bodies,             \* the reply bodies workers send in this behaviour
    corr_id,            \* self.corr_id
    response,           \* self.response
    slotTag,            \* correlation id of the reply held in self.response
    callback_queue,     \* replies waiting in the exclusive callback queue
    published,          \* task messages handed to basic_publish, in order
    uuids,              \* how many ids uuid4() has produced
    fetches,            \* downloadOSSFile calls, in order
    dirs,               \* directories made by os.makedirs
    memory,             \* self.memory, as the contents of its messages
    callbackError,      \* what the last callback dispatch outside reply() raised
    pc,                 \* per caller: the line of reply() it is about to run
    converted_json,     \* per caller: local converted_json
    packageId,          \* per caller: message["packageId"]
    current_img_dir,    \* per caller: local current_img_dir
    created_key,        \* per caller: local created_image_oss_key
    myId,               \* per caller: the id line 114 generated for this request
    consumed,           \* per caller: self.response as read at line 135
    resolvedTag,        \* per caller: slotTag when line 135 read the slot
    matched,            \* per caller: a reply tagged myId was dispatched since the publish
    dropped,            \* tag of the last reply discarded in the wait loop since the last publish
    overlapped,         \* per caller: another request was in flight during this one
    outcome,            \* per caller: how the request ended
    result              \* per caller: the value reply() returned

vars == <<callers, bodies, corr_id, response, slotTag, callback_queue, published, uuids,
          fetches, dirs, memory, callbackError, pc, converted_json, packageId,
          current_img_dir, created_key, myId, consumed, resolvedTag, matched,
          dropped, overlapped, outcome, result>>

shared == <<corr_id, response, slotTag, callback_queue, published, uuids,
            fetches, dirs, memory, callbackError>>
locals == <<converted_json, packageId, current_img_dir, created_key, myId,
            consumed, resolvedTag, matched, dropped, overlapped, outcome, result>>

UserContent == <<"user_input">>
InFlight(t) == pc[t] \notin {"idle", "done"}
Waiting(t) == pc[t] \in {"l133", "l134"}

\* State after __init__: callback queue declared and consumed from, image_dir
\* set; neither corr_id nor response is assigned.
InitWith(cs, bs) ==
    /\ callers = cs
    /\ bodies = bs
    /\ corr_id = NoAttr
    /\ response = RespNoAttr
    /\ slotTag = NoTag
    /\ callback_queue = <<>>
    /\ published = <<>>
    /\ uuids = 0
    /\ fetches = <<>>
    /\ dirs = {}
    /\ memory = <<>>
    /\ callbackError = "none"
    /\ pc = [t \in AllCallers |-> "idle"]
    /\ converted_json = [t \in AllCallers |-> JsonNone]
    /\ packageId = [t \in AllCallers |-> NoAttr]
    /\ current_img_dir = [t \in AllCallers |-> NoPath]
    /\ created_key = [t \in AllCallers |-> NoPath]
    /\ myId = [t \in AllCallers |-> NoAttr]
    /\ consumed = [t \in AllCallers |-> RespNoAttr]
    /\ resolvedTag = [t \in AllCallers |-> NoTag]
    /\ matched = [t \in AllCallers |-> FALSE]
    /\ dropped = NoTag
    /\ overlapped = [t \in AllCallers |-> FALSE]
    /\ outcome = [t \in AllCallers |-> "none"]
    /\ result = [t \in AllCallers |-> NoPath]

Init == InitWith({1}, Bodies)
InitConc == InitWith(AllCallers, {FailedBytes, OkBytes})

\* ----------------------------------------------------------------- reply()
\* Lines 98-112: record the input, call the model, convert its text.
Start(t) ==
    /\ t \in callers
    /\ ~InFlight(t)
    /\ uuids < MaxRequests
    /\ \E text \in LlmTexts :
         converted_json' = [converted_json EXCEPT ![t] = ConvertToJson(text)]
    /\ memory' = <<UserContent>>
    /\ pc' = [pc EXCEPT ![t] = "l114"]
    /\ overlapped' = [u \in AllCallers |->
                        IF u = t THEN \E v \in AllCallers \ {t} : InFlight(v)
                        ELSE IF InFlight(u) THEN TRUE ELSE overlapped[u]]
    /\ packageId' = [packageId EXCEPT ![t] = NoAttr]
    /\ current_img_dir' = [current_img_dir EXCEPT ![t] = NoPath]
    /\ created_key' = [created_key EXCEPT ![t] = NoPath]
    /\ myId' = [myId EXCEPT ![t] = NoAttr]
    /\ consumed' = [consumed EXCEPT ![t] = RespNoAttr]
    /\ resolvedTag' = [resolvedTag EXCEPT ![t] = NoTag]
    /\ matched' = [matched EXCEPT ![t] = FALSE]
    /\ outcome' = [outcome EXCEPT ![t] = "none"]
    /\ result' = [result EXCEPT ![t] = NoPath]
    /\ UNCHANGED <<callers, bodies, corr_id, response, slotTag, callback_queue,
                   published, uuids, fetches, dirs, callbackError, dropped>>

\* Line 114: self.corr_id = str(uuid.uuid4())
L114(t) ==
    /\ t \in callers
    /\ pc[t] = "l114"
    /\ corr_id' = Uuid4(uuids)
    /\ uuids' = uuids + 1
    /\ myId' = [myId EXCEPT ![t] = Uuid4(uuids)]
    /\ pc' = [pc EXCEPT ![t] = "l116"]
    /\ UNCHANGED <<callers, bodies, response, slotTag, callback_queue, published, fetches,
                   dirs, memory, callbackError, converted_json, packageId,
                   current_img_dir, created_key, consumed, resolvedTag, matched, dropped,
                   overlapped, outcome, result>>

\* Lines 115-124: build the message; a subscript of converted_json that
\* raises (line 121, else line 122) ends the request there.
L116(t) ==
    /\ t \in callers
    /\ pc[t] = "l116"
    /\ LET e1 == Subscript(converted_json[t], "source_furniture")
           e2 == Subscript(converted_json[t], "desired_furniture")
           err == IF e1 # "none" THEN e1 ELSE e2
       IN IF err # "none"
          THEN /\ outcome' = [outcome EXCEPT ![t] = err]
               /\ pc' = [pc EXCEPT ![t] = "done"]
               /\ UNCHANGED packageId
          ELSE /\ packageId' = [packageId EXCEPT ![t] = corr_id]
               /\ pc' = [pc EXCEPT ![t] = "l125"]
               /\ UNCHANGED outcome
    /\ UNCHANGED <<callers, bodies, shared, converted_json, current_img_dir, created_key,
                   myId, consumed, resolvedTag, matched, dropped, overlapped, result>>

\* Line 125: self.response = None
L125(t) ==
    /\ t \in callers
    /\ pc[t] = "l125"
    /\ response' = ResetResponse(response)
    /\ slotTag' = IF response'.kind = "bytes" THEN slotTag ELSE NoTag
    /\ pc' = [pc EXCEPT ![t] = "l126"]
    /\ UNCHANGED <<callers, bodies, corr_id, callback_queue, published, uuids, fetches, dirs,
                   memory, callbackError, locals>>

\* Lines 126-132: basic_publish with reply_to and correlation_id.
L126(t) ==
    /\ t \in callers
    /\ pc[t] = "l126"
    /\ published' = Append(published,
                           [reply_to |-> CallbackQueueName,
                            correlation_id |-> corr_id,
                            packageId |-> packageId[t]])
    /\ matched' = [matched EXCEPT ![t] = FALSE]
    /\ dropped' = NoTag
    /\ pc' = [pc EXCEPT ![t] = "l133"]
    /\ UNCHANGED <<callers, bodies, corr_id, response, slotTag, callback_queue, uuids,
                   fetches, dirs, memory, callbackError, converted_json, packageId,
                   current_img_dir, created_key, myId, consumed, resolvedTag,
                   overlapped, outcome, result>>

\* Line 133: the loop test.
L133(t) ==
    /\ t \in callers
    /\ pc[t] = "l133"
    /\ pc' = [pc EXCEPT ![t] = IF LoopCondition(response) THEN "l134" ELSE "l135"]
    /\ UNCHANGED <<callers, bodies, shared, locals>>

\* Line 134: process_data_events() dispatches the first k queued replies.
L134(t) ==
    /\ t \in callers
    /\ pc[t] = "l134"
    /\ \E k \in 0..Len(callback_queue) :
         LET batch == SubSeq(callback_queue, 1, k)
             slot == Dispatch(corr_id, [resp |-> response, tag |-> slotTag], batch)
         IN /\ response' = slot.resp
            /\ slotTag' = slot.tag
            /\ callback_queue' = SubSeq(callback_queue, k + 1, Len(callback_queue))
            /\ matched' = [u \in AllCallers |->
                             IF Waiting(u)
                             THEN matched[u]
                                  \/ \E i \in 1..k : batch[i].correlation_id = myId[u]
                             ELSE matched[u]]
            /\ dropped' = LastDropped(corr_id, dropped, batch)
    /\ callbackError' = "none"
    /\ pc' = [pc EXCEPT ![t] = "l133"]
    /\ UNCHANGED <<callers, bodies, corr_id, published, uuids, fetches, dirs, memory,
                   converted_json, packageId, current_img_dir,
                   created_key, myId, consumed, resolvedTag, overlapped, outcome,
                   result>>

\* Lines 135-137: decode the reply and compare it with 'failed'.
L135(t) ==
    /\ t \in callers
    /\ pc[t] = "l135"
    /\ consumed' = [consumed EXCEPT ![t] = response]
    /\ resolvedTag' = [resolvedTag EXCEPT ![t] = slotTag]
    /\ IF response.kind # "bytes"
       THEN /\ outcome' = [outcome EXCEPT ![t] = "AttributeError"]
            /\ pc' = [pc EXCEPT ![t] = "done"]
       ELSE LET d == Utf8Decode(response.body)
            IN IF ~d.ok
               THEN /\ outcome' = [outcome EXCEPT ![t] = "UnicodeDecodeError"]
                    /\ pc' = [pc EXCEPT ![t] = "done"]
               ELSE IF IsFailed(d.text)
               THEN /\ outcome' = [outcome EXCEPT ![t] = "Exception"]
                    /\ pc' = [pc EXCEPT ![t] = "done"]
               ELSE /\ pc' = [pc EXCEPT ![t] = "l139"]
                    /\ UNCHANGED outcome
    /\ UNCHANGED <<callers, bodies, shared, converted_json, packageId, current_img_dir,
                   created_key, myId, matched, dropped, overlapped, result>>

\* Lines 139-141: the local directory, made when absent.
L139(t) ==
    /\ t \in callers
    /\ pc[t] = "l139"
    /\ current_img_dir' = [current_img_dir EXCEPT ![t] = LocalDir(corr_id)]
    /\ dirs' = dirs \cup {LocalDir(corr_id)}
    /\ pc' = [pc EXCEPT ![t] = "l142"]
    /\ UNCHANGED <<callers, bodies, corr_id, response, slotTag, callback_queue, published,
                   uuids, fetches, memory, callbackError, converted_json, packageId,
                   created_key, myId, consumed, resolvedTag, matched, dropped, overlapped,
                   outcome, result>>

\* Lines 142-143: the storage key and the download.
L142(t) ==
    /\ t \in callers
    /\ pc[t] = "l142"
    /\ created_key' = [created_key EXCEPT ![t] = OssKey(corr_id)]
    /\ fetches' = Append(fetches, [req |-> myId[t],
                                   bucket |-> Bucket,
                                   key |-> OssKey(corr_id),
                                   dir |-> current_img_dir[t]])
    /\ pc' = [pc EXCEPT ![t] = "l145"]
    /\ UNCHANGED <<callers, bodies, corr_id, response, slotTag, callback_queue, published,
                   uuids, dirs, memory, callbackError, converted_json, packageId,
                   current_img_dir, myId, consumed, resolvedTag, matched, dropped, overlapped,
                   outcome, result>>

\* Lines 145-150: record and speak the local path, return the storage key.
ReturnValueLocal(key, dir) == LocalPath(dir)
ReturnValue(key, dir) == key

L145(t) ==
    /\ t \in callers
    /\ pc[t] = "l145"
    /\ memory' = Append(memory, LocalPath(current_img_dir[t]))
    /\ result' = [result EXCEPT ![t] = ReturnValue(created_key[t], current_img_dir[t])]
    /\ outcome' = [outcome EXCEPT ![t] = "returned"]
    /\ pc' = [pc EXCEPT ![t] = "done"]
    /\ UNCHANGED <<callers, bodies, corr_id, response, slotTag, callback_queue, published,
                   uuids, fetches, dirs, callbackError, converted_json, packageId,
                   current_img_dir, created_key, myId, consumed, resolvedTag, matched, dropped,
                   overlapped>>

\* ------------------------------------------------------------ environment
\* Correlation ids a reply on the callback queue can carry.
ReplyTags ==
    {ForeignId} \cup {published[i].correlation_id : i \in 1..Len(published)}
                \cup {published[i].packageId : i \in 1..Len(published)}

\* A worker (or anyone who knows the queue name) posts a reply.
WorkerReply ==
    /\ Len(callback_queue) < MaxQueue
    /\ \E c \in ReplyTags, b \in bodies :
         callback_queue' = Append(callback_queue, [correlation_id |-> c, body |-> b])
    /\ UNCHANGED <<callers, bodies, corr_id, response, slotTag, published, uuids, fetches,
                   dirs, memory, callbackError, pc, locals>>

\* The shared connection's event loop is driven while no reply() is running:
\* the consumer registered at line 72 gets the first k queued replies.  With
\* corr_id unassigned the first callback raises AttributeError.
ExternalDispatch ==
    /\ \A t \in AllCallers : ~InFlight(t)
    /\ \E k \in 1..Len(callback_queue) :
         IF corr_id = NoAttr
         THEN /\ callback_queue' = Tail(callback_queue)
              /\ callbackError' = "AttributeError"
              /\ UNCHANGED <<response, slotTag>>
         ELSE LET batch == SubSeq(callback_queue, 1, k)
                  slot == Dispatch(corr_id, [resp |-> response, tag |-> slotTag], batch)
              IN /\ response' = slot.resp
                 /\ slotTag' = slot.tag
                 /\ callback_queue' = SubSeq(callback_queue, k + 1, Len(callback_queue))
                 /\ callbackError' = "none"
    /\ UNCHANGED <<callers, bodies, corr_id, published, uuids, fetches, dirs, memory, pc,
                   locals>>

Step(t) ==
    \/ L114(t)
    \/ L116(t)
    \/ L125(t)
    \/ L126(t)
    \/ L133(t)
    \/ L134(t)
    \/ L135(t)
    \/ L139(t)
    \/ L142(t)
    \/ L145(t)

Next ==
    \/ \E t \in AllCallers : Start(t)
    \/ \E t \in AllCallers : Step(t)
    \/ WorkerReply
    \/ ExternalDispatch

Spec == Init /\ [][Next]_vars
SpecConc == InitConc /\ [][Next]_vars
\* The calling thread keeps running once inside reply().
FairSpec == Init /\ [][Next]_vars /\ \A t \in AllCallers : WF_vars(Step(t))

\* ------------------------------------------------------------- properties
\* The request has left the wait loop.
PastWait(t) ==
    \/ pc[t] \in {"l135", "l139", "l142", "l145"}
    \/ pc[t] = "done" /\ outcome[t] \notin {"none", "TypeError", "KeyError"}

\* The request went through line 135 and ended.
Completed(t) == pc[t] = "done" /\ outcome[t] \notin {"none", "TypeError", "KeyError"}

\* The replies a step took off the callback queue and handed to on_response.
DispatchedCount == Len(callback_queue) - Len(callback_queue')
NoneDispatchedTagged(c) ==
    \A i \in 1..DispatchedCount : callback_queue[i].correlation_id # c

FetchesOf(c) == {i \in 1..Len(fetches) : fetches[i].req = c}

\* C1: while a request with correlation id c1 waits in reply(), a dispatch of
\* replies none of which is tagged c1 leaves the pending-response slot empty
\* and the request in the wait loop; the request leaves the loop only on a
\* slot filled by a reply tagged c1.
C1_ForeignRepliesDoNotUnblock ==
    [][\A t \in callers :
          /\ ( /\ Waiting(t)
               /\ response = RespNone
               /\ DispatchedCount > 0
               /\ NoneDispatchedTagged(myId[t]) )
             => (response' = RespNone /\ pc'[t] \in {"l133", "l134"})
          /\ (Waiting(t) /\ pc'[t] \notin {"l133", "l134"})
             => (response.kind = "bytes" /\ slotTag = myId[t])
      ]_vars

\* A request is still waiting with an empty slot after a reply with another
\* tag was dispatched to on_response.
C1_Witness ==
    /\ pc[1] = "l133"
    /\ response = RespNone
    /\ dropped # NoTag
    /\ dropped # myId[1]
    /\ ~matched[1]

\* C2: a request whose consumed reply body is b'failed' has ended by raising
\* Exception, has made no downloadOSSFile call and no local directory, and
\* has returned nothing.
C2_FailedRaisesWithoutFetch ==
    \A t \in callers :
        consumed[t] = RespBytes(FailedBytes)
        => /\ pc[t] = "done"
           /\ outcome[t] = "Exception"
           /\ FetchesOf(myId[t]) = {}
           /\ <<"local_images", myId[t]>> \notin dirs
           /\ result[t] = NoPath

C2_Witness ==
    /\ consumed[1] = RespBytes(FailedBytes)
    /\ resolvedTag[1] = myId[1]
    /\ outcome[1] = "Exception"

\* C3: a request whose consumed reply body is any byte sequence other than
\* b'failed' ends having made exactly one fetch, of key AIGCs/<c>/0.png for
\* the id c it was published under.
C3_NonFailedFetchesOnce ==
    \A t \in callers :
        (pc[t] = "done" /\ consumed[t].kind = "bytes"
                        /\ consumed[t].body # FailedBytes)
        => /\ Cardinality(FetchesOf(myId[t])) = 1
           /\ \A i \in FetchesOf(myId[t]) :
                 fetches[i].key = <<"AIGCs", myId[t], "0.png">>

\* A reply that line 135 takes as success: it decodes, to a text other than
\* 'failed'.
SuccessReply(r) ==
    /\ r.kind = "bytes"
    /\ Utf8Decode(r.body).ok
    /\ Utf8Decode(r.body).text # <<102, 97, 105, 108, 101, 100>>

C5_OwnReplyWhenAlone ==
    \A t \in callers :
        (Completed(t) /\ ~overlapped[t])
        => /\ resolvedTag[t] = myId[t]
           /\ outcome[t] = "returned" => result[t] = <<"AIGCs", myId[t], "0.png">>

\* Caller 1 returned the artifact key of caller 2's request, on the reply
\* tagged with caller 2's id.
C5_Witness ==
    /\ outcome[1] = "returned"
    /\ overlapped[1]
    /\ myId[2] # NoAttr
    /\ myId[1] # myId[2]
    /\ resolvedTag[1] = myId[2]
    /\ result[1] = <<"AIGCs", myId[2], "0.png">>

\* C6: a request is past the wait loop only if a reply tagged with its
\* correlation id was dispatched since its publish: nothing else (no
\* timeout) ends the wait.
C6_NoExitWithoutMatchingReply ==
    \A t \in callers : PastWait(t) => matched[t]

\* The worker is silent: the request spins with nothing to dispatch.
C6_Witness ==
    /\ pc[1] = "l134"
    /\ ~matched[1]
    /\ callback_queue = <<>>
    /\ Len(published) > 0

\* C7: a request that was delivered a reply tagged with its correlation id and
\* has terminated did so by returning an artifact reference or by raising the
\* failure error.
C7_MatchedEndsReturnedOrFailed ==
    \A t \in callers :
        (pc[t] = "done" /\ matched[t]) => outcome[t] \in {"returned", "Exception"}

\* The liveness half of C7: under FairSpec a delivered matching reply leads
\* to the end of the request.
C7_MatchedTerminates ==
    \A t \in AllCallers : (Waiting(t) /\ matched[t]) ~> (pc[t] = "done")

\* C8: every published task message carries reply_to = the callback queue,
\* a correlation_id equal to its body's packageId and different from that of
\* every earlier message; while its request runs it is the tracked corr_id.
C8_PublishedProperties ==
    /\ \A i \in 1..Len(published) :
          /\ published[i].reply_to = CallbackQueueName
          /\ published[i].correlation_id = published[i].packageId
          /\ \A j \in 1..(i - 1) :
                published[j].correlation_id # published[i].correlation_id
    /\ \A t \in callers :
          pc[t] \in {"l133", "l134", "l135", "l139", "l142", "l145"}
          => /\ published[Len(published)].correlation_id = corr_id
             /\ corr_id = myId[t]

C8_Witness ==
    /\ Len(published) = 2
    /\ pc[1] = "l133"

\* C9: in a sequence of requests each one has its new correlation id in place
\* before the slot is emptied, the slot is empty when it publishes, and it
\* leaves the wait loop and completes only on a reply tagged with its own id,
\* never on the response or a late reply of an earlier request.
C9_FreshSlotEachRequest ==
    \A t \in callers :
        /\ pc[t] \in {"l125", "l126"}
           => /\ corr_id = myId[t]
              /\ \A i \in 1..Len(published) : published[i].correlation_id # myId[t]
        /\ pc[t] = "l126" => response = RespNone
        /\ pc[t] = "l135" => slotTag = myId[t]
        /\ Completed(t) => resolvedTag[t] = myId[t]

\* The second request returned although the first one's response was left in
\* the slot when it started and a reply tagged with the first id came late.
C9_Witness ==
    /\ Len(fetches) = 2
    /\ fetches[1].req = 1
    /\ myId[1] = 2
    /\ dropped = 1
    /\ outcome[1] = "returned"
    /\ resolvedTag[1] = 2

\* C10: in every listener state a dispatch of replies none of which is tagged
\* with the tracked corr_id leaves the slot and corr_id unchanged and raises
\* nothing; the slot changes only when a dispatched reply is tagged corr_id.
C10_MismatchDiscardedSilently ==
    [][(DispatchedCount > 0 /\ NoneDispatchedTagged(corr_id))
       => /\ response' = response
          /\ corr_id' = corr_id
          /\ callbackError' = "none"
      ]_vars

\* C11: a request whose converted_json is None (the model's text did not
\* parse as JSON) never gets past the message construction: it ends with
\* TypeError, no published task message carries its correlation id, it never
\* enters the wait loop and it makes no fetch, no directory and no return
\* value.
C11_UnparsedOutputFailsBeforePublish ==
    \A t \in callers :
        converted_json[t].kind = "None"
        => /\ pc[t] \in {"idle", "l114", "l116", "done"}
           /\ pc[t] = "done"
              => /\ outcome[t] = "TypeError"
                 /\ \A i \in 1..Len(published) :
                       /\ published[i].correlation_id # myId[t]
                       /\ published[i].packageId # myId[t]
                 /\ FetchesOf(myId[t]) = {}
                 /\ <<"local_images", myId[t]>> \notin dirs
                 /\ ~matched[t]
                 /\ result[t] = NoPath

\* The second request failed on unparsed output after the first had published:
\* the first task message is still the only one.
C11_Witness ==
    /\ pc[1] = "done"
    /\ converted_json[1].kind = "None"
    /\ outcome[1] = "TypeError"
    /\ myId[1] = 2
    /\ corr_id = 2
    /\ Len(published) = 1

====
